---- MODULE Spec2Model ----
(***************************************************************************)
(* Chromatic Cube Roller: the puzzle state machine of the App component    *)
(* (game state, roll request / roll commit, map load, restart, autoplay)   *)
(* and the breadth-first solver, modelled from the TypeScript source.      *)
(*                                                                         *)
(* A grid is a sequence of rows, each a sequence of colors; the cell the   *)
(* source reads as grid[y][x] is grid[y + 1][x + 1] here.  Colors are the   *)
(* names of the ColorType enum members.                                    *)
(*                                                                         *)
(* Every handler is one atomic action: React applies the state updates a   *)
(* handler queues in one batch, and a handler reads the state of the last  *)
(* render.  Left out: sound, rendering, the persisted high score           *)
(* (localStorage and the highScore field), and the animationStartTime ref  *)
(* of CubeMesh, which is set whenever a roll is put in flight and so adds  *)
(* nothing to the guard "isRolling and rollDirection" of useFrame.          *)
(* Math.random is a choice among finitely many fixed shuffles; a map file  *)
(* is one of a few arrays of rows (a file that is no array, or does not    *)
(* parse, changes nothing).                                                *)
(***************************************************************************)
EXTENDS Integers, Sequences, FiniteSets, TLC

\* ------------------------------------------------------------------------
\* constants.ts
\* ------------------------------------------------------------------------

GRID_SIZE == 5

START_POS == <<2, 2>>

ALL_COLORS == <<"GREEN", "RED", "BLUE", "YELLOW", "PINK", "WHITE">>

INITIAL_CUBE_FACES ==
  [top |-> "WHITE", bottom |-> "PINK", front |-> "RED",
   back |-> "BLUE", left |-> "GREEN", right |-> "YELLOW"]

\* types.ts
ColorType ==
  {"GREEN", "RED", "BLUE", "YELLOW", "PINK", "WHITE", "BLACK", "GRAY", "MAGENTA"}

Direction == {"up", "down", "left", "right"}

\* The order in which both searches try the directions.
DirOrder == <<"up", "down", "left", "right">>

FaceNames == {"top", "bottom", "front", "back", "left", "right"}

\* ------------------------------------------------------------------------
\* Orientation model
\* ------------------------------------------------------------------------

\* A roll to the right that brings the old left face down (the faces turn
\* the wrong way round).
rotateOrientationRightFromLeft(o, dir) ==
  CASE dir = "up" ->
         [o EXCEPT !.top = o.back, !.front = o.top, !.bottom = o.front, !.back = o.bottom]
    [] dir = "down" ->
         [o EXCEPT !.top = o.front, !.front = o.bottom, !.bottom = o.back, !.back = o.top]
    [] dir = "left" ->
         [o EXCEPT !.top = o.right, !.right = o.bottom, !.bottom = o.left, !.left = o.top]
    [] dir = "right" ->
         [o EXCEPT !.top = o.right, !.right = o.bottom, !.bottom = o.left, !.left = o.top]
    [] OTHER -> o

\* A roll up that forgets to move the old bottom face to the back: the old
\* top color is kept twice and the old bottom color is lost.
rotateOrientationDropsBack(o, dir) ==
  CASE dir = "up" ->
         [o EXCEPT !.top = o.back, !.front = o.top, !.bottom = o.front, !.back = o.top]
    [] dir = "down" ->
         [o EXCEPT !.top = o.front, !.front = o.bottom, !.bottom = o.back, !.back = o.top]
    [] dir = "left" ->
         [o EXCEPT !.top = o.right, !.right = o.bottom, !.bottom = o.left, !.left = o.top]
    [] dir = "right" ->
         [o EXCEPT !.top = o.left, !.left = o.bottom, !.bottom = o.right, !.right = o.top]
    [] OTHER -> o

\* A `down` roll that turns the cube the same way as `up`.
rotateOrientationDownAsUp(o, dir) ==
  CASE dir = "up" ->
         [o EXCEPT !.top = o.back, !.front = o.top, !.bottom = o.front, !.back = o.bottom]
    [] dir = "down" ->
         [o EXCEPT !.top = o.back, !.front = o.top, !.bottom = o.front, !.back = o.bottom]
    [] dir = "left" ->
         [o EXCEPT !.top = o.right, !.right = o.bottom, !.bottom = o.left, !.left = o.top]
    [] dir = "right" ->
         [o EXCEPT !.top = o.left, !.left = o.bottom, !.bottom = o.right, !.right = o.top]
    [] OTHER -> o

\* A `left` roll that swaps top and bottom through the side faces in one
\* step (a half turn): two rolls already restore the cube.
rotateOrientationLeftHalfTurn(o, dir) ==
  CASE dir = "up" ->
         [o EXCEPT !.top = o.back, !.front = o.top, !.bottom = o.front, !.back = o.bottom]
    [] dir = "down" ->
         [o EXCEPT !.top = o.front, !.front = o.bottom, !.bottom = o.back, !.back = o.top]
    [] dir = "left" ->
         [o EXCEPT !.top = o.bottom, !.right = o.left, !.bottom = o.top, !.left = o.right]
    [] dir = "right" ->
         [o EXCEPT !.top = o.left, !.left = o.bottom, !.bottom = o.right, !.right = o.top]
    [] OTHER -> o

rotateOrientation(o, dir) ==
  CASE dir = "up" ->
         [o EXCEPT !.top = o.back, !.front = o.top, !.bottom = o.front, !.back = o.bottom]
    [] dir = "down" ->
         [o EXCEPT !.top = o.front, !.front = o.bottom, !.bottom = o.back, !.back = o.top]
    [] dir = "left" ->
         [o EXCEPT !.top = o.right, !.right = o.bottom, !.bottom = o.left, !.left = o.top]
    [] dir = "right" ->
         [o EXCEPT !.top = o.left, !.left = o.bottom, !.bottom = o.right, !.right = o.top]
    [] OTHER -> o

\* The visited-set key of an orientation: the template string `top-front`.
\* Every color is a 7-character hex string without '-', so the string
\* determines the pair and the pair models it.
getOrientationKeyTopOnly(o) == <<o.top>>

\* A key of two opposite faces.
getOrientationKeyTopBottom(o) == <<o.top, o.bottom>>

getOrientationKey(o) == <<o.top, o.front>>

\* ------------------------------------------------------------------------
\* Grids
\* ------------------------------------------------------------------------

\* grid[y][x] as JavaScript reads it: undefined past the end of a row.
Cell(g, x, y) ==
  IF y + 1 <= Len(g) /\ x + 1 <= Len(g[y + 1]) THEN g[y + 1][x + 1] ELSE "undefined"

\* The candidate position of a roll from (x, y).
MovePos(x, y, dir) ==
  CASE dir = "up" -> <<x, y + 1>>
    [] dir = "down" -> <<x, y - 1>>
    [] dir = "left" -> <<x - 1, y>>
    [] dir = "right" -> <<x + 1, y>>
    [] OTHER -> <<x, y>>

\* The upper bound test lets the index GRID_SIZE through.
OutOfBoundsPastEdge(x, y) == x < 0 \/ x > GRID_SIZE \/ y < 0 \/ y > GRID_SIZE

OutOfBounds(x, y) == x < 0 \/ x >= GRID_SIZE \/ y < 0 \/ y >= GRID_SIZE

\* ------------------------------------------------------------------------
\* Board generator
\* ------------------------------------------------------------------------

\* colorPool before the shuffle: every color of ALL_COLORS, tilesPerColor
\* times in a row.
ColorPool ==
  LET totalTiles == GRID_SIZE * GRID_SIZE
      playableTiles == totalTiles - 1
      colorCount == Len(ALL_COLORS)
      tilesPerColor == playableTiles \div colorCount
  IN [k \in 1..(colorCount * tilesPerColor) |-> ALL_COLORS[((k - 1) \div tilesPerColor) + 1]]

\* A shuffle step that copies element j over element i instead of swapping.
RECURSIVE ShuffleOverwrites(_, _, _)
ShuffleOverwrites(pool, i, rnd) ==
  IF i <= 0 THEN pool
  ELSE LET j == rnd[i]
       IN ShuffleOverwrites([pool EXCEPT ![i + 1] = pool[j + 1]], i - 1, rnd)

\* The Fisher-Yates loop from index i (0-based) down to 1; rnd[i] is the
\* value Math.floor(Math.random() * (i + 1)) takes at step i.
RECURSIVE Shuffle(_, _, _)
Shuffle(pool, i, rnd) ==
  IF i <= 0 THEN pool
  ELSE LET j == rnd[i]
       IN Shuffle([pool EXCEPT ![i + 1] = pool[j + 1], ![j + 1] = pool[i + 1]], i - 1, rnd)

\* The pool index of cell (x, y): the number of non-start cells before it in
\* row-major order (poolIdx at the time the cell is pushed).
PoolIdx(x, y) ==
  LET before == y * GRID_SIZE + x
      startAt == START_POS[2] * GRID_SIZE + START_POS[1]
  IN IF before > startAt THEN before - 1 ELSE before

generateGrid(rnd) ==
  LET colorPool == Shuffle(ColorPool, Len(ColorPool) - 1, rnd)
  IN [r \in 1..GRID_SIZE |->
       [c \in 1..GRID_SIZE |->
          IF c - 1 = START_POS[1] /\ r - 1 = START_POS[2] THEN "GRAY"
          ELSE IF PoolIdx(c - 1, r - 1) + 1 <= Len(colorPool)
               THEN colorPool[PoolIdx(c - 1, r - 1) + 1]
               ELSE "undefined"]]

\* ------------------------------------------------------------------------
\* Path solver
\* ------------------------------------------------------------------------

\* A search result: null, or the path of the first goal node dequeued.
NoPath == [found |-> FALSE, path |-> <<>>]

SomePath(p) == [found |-> TRUE, path |-> p]

\* The for loop over the four directions of findPath: dirs i..4 of DirOrder
\* tried in order on node curr, pushing each unvisited in-bounds neighbour.
RECURSIVE findPathExpand(_, _, _, _)
findPathExpand(curr, i, queue, visited) ==
  IF i > Len(DirOrder) THEN [queue |-> queue, visited |-> visited]
  ELSE LET dir == DirOrder[i]
           np == MovePos(curr.x, curr.y, dir)
       IN IF OutOfBounds(np[1], np[2])
          THEN findPathExpand(curr, i + 1, queue, visited)
          ELSE LET nextFaces == rotateOrientation(curr.faces, dir)
                   key == <<np[1], np[2], getOrientationKey(nextFaces)>>
               IN IF key \notin visited
                  THEN findPathExpand(curr, i + 1,
                         Append(queue, [x |-> np[1], y |-> np[2], faces |-> nextFaces,
                                        path |-> Append(curr.path, dir)]),
                         visited \cup {key})
                  ELSE findPathExpand(curr, i + 1, queue, visited)

\* findPathStep with the cutoff at 5 moves instead of 15.
findPathStepShortCutoff(g, s) ==
  IF s.queue = <<>> THEN [s EXCEPT !.done = TRUE, !.result = NoPath]
  ELSE LET curr == Head(s.queue)
           tileAt == Cell(g, curr.x, curr.y)
       IN IF tileAt # "BLACK" /\ tileAt # "GRAY" /\ curr.faces.bottom = tileAt
          THEN [s EXCEPT !.done = TRUE, !.result = SomePath(curr.path)]
          ELSE IF Len(curr.path) > 5 THEN [s EXCEPT !.queue = Tail(s.queue)]
          ELSE LET e == findPathExpand(curr, 1, Tail(s.queue), s.visited)
               IN [s EXCEPT !.queue = e.queue, !.visited = e.visited]

\* One iteration of the while loop of findPath on the loop state s: the
\* queue, the visited set, and (once the loop has ended) its result.
findPathStep(g, s) ==
  IF s.queue = <<>> THEN [s EXCEPT !.done = TRUE, !.result = NoPath]
  ELSE LET curr == Head(s.queue)
           tileAt == Cell(g, curr.x, curr.y)
       IN IF tileAt # "BLACK" /\ tileAt # "GRAY" /\ curr.faces.bottom = tileAt
          THEN [s EXCEPT !.done = TRUE, !.result = SomePath(curr.path)]
          ELSE IF Len(curr.path) > 15 THEN [s EXCEPT !.queue = Tail(s.queue)]
          ELSE LET e == findPathExpand(curr, 1, Tail(s.queue), s.visited)
               IN [s EXCEPT !.queue = e.queue, !.visited = e.visited]

\* Every search key is a cell with a pair of face colors, and a node is
\* queued only with a new key, so no search dequeues more nodes than this.
SearchFuel == GRID_SIZE * GRID_SIZE * Len(ALL_COLORS) * Len(ALL_COLORS) + 1

\* n iterations of the while loop, stopping when the loop has ended (the
\* iterations are split in halves to keep the evaluation shallow).
RECURSIVE findPathRun(_, _, _)
findPathRun(g, s, n) ==
  IF s.done \/ n <= 0 THEN s
  ELSE IF n = 1 THEN findPathStep(g, s)
  ELSE findPathRun(g, findPathRun(g, s, n \div 2), n - (n \div 2))

\* The loop state of findPath after SearchFuel iterations at most.
findPathSearch(g, startX, startY, startF) ==
  findPathRun(g,
    [queue |-> <<[x |-> startX, y |-> startY, faces |-> startF, path |-> <<>>]>>,
     visited |-> {<<startX, startY, getOrientationKey(startF)>>},
     done |-> FALSE, result |-> NoPath],
    SearchFuel)

findPath(g, startX, startY, startF) == findPathSearch(g, startX, startY, startF).result

\* The for loop of simulateAiStats over the directions of a path: the
\* private position and orientation after following it.
RECURSIVE simulateFollow(_, _, _)
simulateFollow(currentPos, currentFaces, path) ==
  IF path = <<>> THEN [pos |-> currentPos, faces |-> currentFaces]
  ELSE simulateFollow(MovePos(currentPos[1], currentPos[2], Head(path)),
                      rotateOrientation(currentFaces, Head(path)), Tail(path))

\* The locals of a call of simulateAiStats, with the argument as the call
\* would leave it for the caller (the code writes to gridCopy only, whose
\* rows are copies), the number of calls of findPath made, and whether the
\* loop has reached its break.
simulateStart(initialGrid) ==
  [initialGrid |-> initialGrid,
   gridCopy |-> [r \in 1..Len(initialGrid) |-> [c \in 1..Len(initialGrid[r]) |-> initialGrid[r][c]]],
   currentPos |-> <<START_POS[1], START_POS[2]>>,
   currentFaces |-> INITIAL_CUBE_FACES,
   totalMoves |-> 0,
   calls |-> 0,
   done |-> FALSE]

\* The cell the path started from is marked instead of the cell it ends on.
simulateIterationMarksStart(s) ==
  LET path == findPath(s.gridCopy, s.currentPos[1], s.currentPos[2], s.currentFaces)
  IN IF ~path.found THEN [s EXCEPT !.calls = @ + 1, !.done = TRUE]
     ELSE LET end == simulateFollow(s.currentPos, s.currentFaces, path.path)
          IN [s EXCEPT !.calls = @ + 1,
                       !.totalMoves = @ + Len(path.path),
                       !.currentPos = end.pos,
                       !.currentFaces = end.faces,
                       !.gridCopy[s.currentPos[2] + 1][s.currentPos[1] + 1] = "BLACK"]

\* gridCopy shares its rows with the argument: the write shows in both.
simulateIterationWritesArgument(s) ==
  LET path == findPath(s.gridCopy, s.currentPos[1], s.currentPos[2], s.currentFaces)
  IN IF ~path.found THEN [s EXCEPT !.calls = @ + 1, !.done = TRUE]
     ELSE LET end == simulateFollow(s.currentPos, s.currentFaces, path.path)
          IN [s EXCEPT !.calls = @ + 1,
                       !.totalMoves = @ + Len(path.path),
                       !.currentPos = end.pos,
                       !.currentFaces = end.faces,
                       !.gridCopy[end.pos[2] + 1][end.pos[1] + 1] = "BLACK",
                       !.initialGrid[end.pos[2] + 1][end.pos[1] + 1] = "BLACK"]

\* One iteration of the while (true) loop of simulateAiStats.
simulateIteration(s) ==
  LET path == findPath(s.gridCopy, s.currentPos[1], s.currentPos[2], s.currentFaces)
  IN IF ~path.found THEN [s EXCEPT !.calls = @ + 1, !.done = TRUE]
     ELSE LET end == simulateFollow(s.currentPos, s.currentFaces, path.path)
          IN [s EXCEPT !.calls = @ + 1,
                       !.totalMoves = @ + Len(path.path),
                       !.currentPos = end.pos,
                       !.currentFaces = end.faces,
                       !.gridCopy[end.pos[2] + 1][end.pos[1] + 1] = "BLACK"]

\* The while (true) loop of simulateAiStats: the locals when it breaks.
RECURSIVE simulateLoop(_)
simulateLoop(s) == IF s.done THEN s ELSE simulateLoop(simulateIteration(s))

\* Math.floor((25 / moves) * 100).  In double arithmetic this equals the
\* integer quotient 2500 div moves for every move count up to 100000.
EfficiencyOf(moves) == (25 * 100) \div moves

\* The value simulateAiStats returns, and its argument as the call leaves it.
simulateAiStats(initialGrid) ==
  LET end == simulateLoop(simulateStart(initialGrid))
      totalMoves == end.totalMoves
  IN [efficiency |-> IF totalMoves > 0 THEN EfficiencyOf(totalMoves) ELSE 0,
      moves |-> totalMoves,
      initialGrid |-> end.initialGrid]

\* ------------------------------------------------------------------------
\* Bounds of the model
\* ------------------------------------------------------------------------

\* The outcomes of Math.random considered: one shuffle per seed.
NumSeeds == 1

\* User input (roll requests by key or button, autoplay toggles) arrives
\* only while fewer than this many moves of the game have been made.
MaxManualMoves == 3

\* ------------------------------------------------------------------------
\* Boards
\* ------------------------------------------------------------------------

\* The 23 values Math.floor(Math.random() * (i + 1)), i = 23 .. 1, of one
\* run of the shuffle: a fixed pseudo-random sequence per seed.
RandomSource(seed) ==
  [i \in 1..(Len(ColorPool) - 1) |-> ((seed * 7 + 3) * (i * i + 5 * i + 11)) % (i + 1)]

Seeds == 1..NumSeeds

\* A row of five cells.
Row(a, b, c, d, e) == <<a, b, c, d, e>>

\* Files handleLoadMap is given.  SparseMap obeys the generator's layout
\* (sentinel at the start cell) with three playable cells; BlackMap holds a
\* cell that is BLACK from the start; PinkStartMap has a playable color on
\* the start cell; ShortMap has four rows; RaggedMap has five rows, the
\* middle one of four cells.
SparseMap ==
  << Row("GRAY", "GRAY", "GRAY", "GRAY", "GRAY"),
     Row("GRAY", "GRAY", "GREEN", "GRAY", "GRAY"),
     Row("GRAY", "GRAY", "GRAY", "YELLOW", "GRAY"),
     Row("GRAY", "GRAY", "GRAY", "GRAY", "GRAY"),
     Row("GRAY", "GRAY", "GRAY", "GRAY", "RED") >>

BlackMap ==
  << Row("GRAY", "GRAY", "GRAY", "GRAY", "GRAY"),
     Row("GRAY", "GRAY", "GRAY", "GRAY", "GRAY"),
     Row("GRAY", "BLACK", "GRAY", "YELLOW", "GRAY"),
     Row("GRAY", "GRAY", "GRAY", "GRAY", "GRAY"),
     Row("GRAY", "GRAY", "GRAY", "GRAY", "GRAY") >>

PinkStartMap ==
  << Row("GRAY", "GRAY", "GRAY", "GRAY", "GRAY"),
     Row("GRAY", "GRAY", "GRAY", "GRAY", "GRAY"),
     Row("GRAY", "GRAY", "PINK", "GRAY", "GRAY"),
     Row("GRAY", "GRAY", "GRAY", "GRAY", "GRAY"),
     Row("GRAY", "GRAY", "GRAY", "GRAY", "GRAY") >>

ShortMap ==
  << Row("GRAY", "GRAY", "GRAY", "GRAY", "GRAY"),
     Row("GRAY", "GRAY", "GREEN", "GRAY", "GRAY"),
     Row("GRAY", "GRAY", "GRAY", "YELLOW", "GRAY"),
     Row("GRAY", "GRAY", "GRAY", "GRAY", "GRAY") >>

RaggedMap ==
  << Row("GRAY", "GRAY", "GRAY", "GRAY", "GRAY"),
     Row("GRAY", "GRAY", "GRAY", "GRAY", "GRAY"),
     <<"GRAY", "GRAY", "GRAY", "GRAY">>,
     Row("GRAY", "GRAY", "GRAY", "GRAY", "GRAY"),
     Row("GRAY", "GRAY", "GRAY", "GRAY", "GRAY") >>

\* The file saveMap writes for the board of the first seed.
SavedMap == generateGrid(RandomSource(1))

MapFiles == {SavedMap, SparseMap, BlackMap, PinkStartMap, ShortMap, RaggedMap}

\* ------------------------------------------------------------------------
\* The App component's state
\* ------------------------------------------------------------------------

VARIABLES
  gameState,      \* useState<GameState>: initialGrid, grid, cubePosition,
                  \* cubeFaces, moves, matchedCount, status and, once won,
                  \* aiComparisonScore and aiComparisonMoves (highScore, a
                  \* copy of the persisted best efficiency, is left out)
  isRolling,      \* useState(false)
  rollDirection,  \* useState<Direction | null>(null): "null" or a direction
  isAiSolving,    \* useState(false)
  aiMoveQueue,    \* useState<Direction[]>([])
  lastEvent,      \* the handler that ran last and the branch it took
  inFlight,       \* history: the roll requests accepted and neither committed
                  \* nor dropped yet, each with its direction, who made it
                  \* and whether the game it was made in is still the current one
  probe           \* the input and results of SpecRotate and SpecSolve

vars == <<gameState, isRolling, rollDirection, isAiSolving, aiMoveQueue, lastEvent, inFlight, probe>>

appVars == <<gameState, isRolling, rollDirection, isAiSolving, aiMoveQueue, lastEvent, inFlight>>

\* A game creation that does not count the start cell as matched.
NewGameStartUncounted(grid) ==
  [initialGrid |-> grid,
   grid |-> grid,
   cubePosition |-> <<START_POS[1], START_POS[2]>>,
   cubeFaces |-> INITIAL_CUBE_FACES,
   moves |-> 0,
   matchedCount |-> 0,
   status |-> "playing"]

\* The GameState every game creation builds around a grid.
NewGame(grid) ==
  [initialGrid |-> grid,
   grid |-> grid,
   cubePosition |-> <<START_POS[1], START_POS[2]>>,
   cubeFaces |-> INITIAL_CUBE_FACES,
   moves |-> 0,
   matchedCount |-> 1,
   status |-> "playing"]

NoProbe == [kind |-> "none"]

Init ==
  /\ \E seed \in Seeds : gameState = NewGame(generateGrid(RandomSource(seed)))
  /\ isRolling = FALSE
  /\ rollDirection = "null"
  /\ isAiSolving = FALSE
  /\ aiMoveQueue = <<>>
  /\ lastEvent = "init"
  /\ inFlight = <<>>
  /\ probe = NoProbe

\* ------------------------------------------------------------------------
\* Roll request and roll commit
\* ------------------------------------------------------------------------

\* A roll request is accepted while another roll is in flight.
RollRefusedOnlyByStatus == gameState.status # "playing"

\* The early return of handleRoll.
RollRefused == isRolling \/ gameState.status # "playing"

\* handleRoll(dir): the roll is put in flight unless refused.
handleRoll(dir) ==
  IF RollRefused
  THEN UNCHANGED <<isRolling, rollDirection>>
  ELSE /\ rollDirection' = dir
       /\ isRolling' = TRUE

\* The history after a call handleRoll(dir) made by `by`.
Requested(dir, by) ==
  IF RollRefused THEN inFlight ELSE Append(inFlight, [dir |-> dir, by |-> by, game |-> "current"])

\* The loss also counts as a move.
RollOffGridCountsMove(prev) == [prev EXCEPT !.status = "lost", !.moves = @ + 1]

\* The state the updater returns for a candidate position off the grid.
RollOffGrid(prev) == [prev EXCEPT !.status = "lost"]

\* The win test reads the counter as it was before the roll.
IsWonLate(prev, nextMatchedCount) == prev.matchedCount = GRID_SIZE * GRID_SIZE

\* isWon
IsWon(prev, nextMatchedCount) == nextMatchedCount = GRID_SIZE * GRID_SIZE

\* Every unmatched, non-sentinel cell the cube lands on is matched, whatever
\* the color of the new bottom face.
RollMovedAnyColor(prev, x, y, newFaces) ==
  LET nextMoves == prev.moves + 1
      currentTileColor == Cell(prev.grid, x, y)
      matches == /\ currentTileColor # "BLACK"
                 /\ currentTileColor # "GRAY"
      nextGrid ==
        IF matches
        THEN [ry \in 1..Len(prev.grid) |->
               [rx \in 1..Len(prev.grid[ry]) |->
                  IF ry - 1 = y /\ rx - 1 = x THEN "BLACK" ELSE prev.grid[ry][rx]]]
        ELSE prev.grid
      nextMatchedCount == IF matches THEN prev.matchedCount + 1 ELSE prev.matchedCount
  IN [prev EXCEPT !.grid = nextGrid,
                  !.cubePosition = <<x, y>>,
                  !.cubeFaces = newFaces,
                  !.moves = nextMoves,
                  !.matchedCount = nextMatchedCount]

\* The state the updater builds for an in-bounds candidate position (x, y)
\* before the win test: the move is counted, the cube is moved and turned,
\* and the cell it lands on is matched if it has the new bottom face's color.
RollMoved(prev, x, y, newFaces) ==
  LET nextMoves == prev.moves + 1
      currentTileColor == Cell(prev.grid, x, y)
      matches == /\ currentTileColor # "BLACK"
                 /\ currentTileColor # "GRAY"
                 /\ currentTileColor = newFaces.bottom
      nextGrid ==
        IF matches
        THEN [ry \in 1..Len(prev.grid) |->
               [rx \in 1..Len(prev.grid[ry]) |->
                  IF ry - 1 = y /\ rx - 1 = x THEN "BLACK" ELSE prev.grid[ry][rx]]]
        ELSE prev.grid
      nextMatchedCount == IF matches THEN prev.matchedCount + 1 ELSE prev.matchedCount
  IN [prev EXCEPT !.grid = nextGrid,
                  !.cubePosition = <<x, y>>,
                  !.cubeFaces = newFaces,
                  !.moves = nextMoves,
                  !.matchedCount = nextMatchedCount]

\* The updater completeRoll hands to setGameState, for roll direction dir.
\* In the win branch {...prev} is spread after simulateAiStats has run on
\* prev.initialGrid, so the new state holds that array as the call left it.
RollUpdate(prev, dir) ==
  LET np == MovePos(prev.cubePosition[1], prev.cubePosition[2], dir)
      x == np[1]
      y == np[2]
      newFaces == rotateOrientation(prev.cubeFaces, dir)
  IN IF OutOfBounds(x, y) THEN RollOffGrid(prev)
     ELSE LET moved == RollMoved(prev, x, y, newFaces)
          IN IF IsWon(prev, moved.matchedCount)
             THEN LET aiStats == simulateAiStats(prev.initialGrid)
                  IN [initialGrid |-> aiStats.initialGrid,
                      grid |-> moved.grid,
                      cubePosition |-> moved.cubePosition,
                      cubeFaces |-> moved.cubeFaces,
                      moves |-> moved.moves,
                      matchedCount |-> moved.matchedCount,
                      status |-> "won",
                      aiComparisonScore |-> aiStats.efficiency,
                      aiComparisonMoves |-> aiStats.moves]
             ELSE moved

\* Whether the updater switches autoplay off (setIsAiSolving(false)): in
\* its loss branch and in its win branch.
RollStopsAi(prev, dir) ==
  LET np == MovePos(prev.cubePosition[1], prev.cubePosition[2], dir)
  IN \/ OutOfBounds(np[1], np[2])
     \/ IsWon(prev, RollMoved(prev, np[1], np[2], rotateOrientation(prev.cubeFaces, dir)).matchedCount)

\* The roll stays in flight after the commit.
completeRollKeepsRolling ==
  IF rollDirection = "null"
  THEN UNCHANGED <<gameState, isRolling, rollDirection, isAiSolving, inFlight>> /\ lastEvent' = "commitIgnored"
  ELSE /\ gameState' = RollUpdate(gameState, rollDirection)
       /\ isAiSolving' = IF RollStopsAi(gameState, rollDirection) THEN FALSE ELSE isAiSolving
       /\ UNCHANGED <<isRolling, rollDirection>>
       /\ inFlight' = <<>>
       /\ lastEvent' = "commit"

completeRoll ==
  IF rollDirection = "null"
  THEN UNCHANGED <<gameState, isRolling, rollDirection, isAiSolving, inFlight>> /\ lastEvent' = "commitIgnored"
  ELSE /\ gameState' = RollUpdate(gameState, rollDirection)
       /\ isAiSolving' = IF RollStopsAi(gameState, rollDirection) THEN FALSE ELSE isAiSolving
       /\ isRolling' = FALSE
       /\ rollDirection' = "null"
       /\ inFlight' = <<>>
       /\ lastEvent' = "commit"

\* The efficiency the panel shows: Math.floor((25 / (gameState.moves || 1)) * 100).
userEfficiency == EfficiencyOf(IF gameState.moves = 0 THEN 1 ELSE gameState.moves)

\* The on-screen direction buttons (rendered while the game is playing):
\* onPointerDown calls handleRoll.
PointerDown(dir) ==
  /\ gameState.status = "playing"
  /\ gameState.moves < MaxManualMoves
  /\ handleRoll(dir)
  /\ inFlight' = Requested(dir, "user")
  /\ lastEvent' = IF RollRefused THEN "rollIgnored" ELSE "rollAccepted"
  /\ UNCHANGED <<gameState, isAiSolving, aiMoveQueue, probe>>

\* handleKeyDown for an arrow or w/a/s/d key.
handleKeyDown(dir) ==
  /\ gameState.status = "playing" => gameState.moves < MaxManualMoves
  /\ IF gameState.status # "playing" \/ isAiSolving
     THEN UNCHANGED <<isRolling, rollDirection, inFlight>> /\ lastEvent' = "rollIgnored"
     ELSE /\ handleRoll(dir)
          /\ inFlight' = Requested(dir, "user")
          /\ lastEvent' = IF RollRefused THEN "rollIgnored" ELSE "rollAccepted"
  /\ UNCHANGED <<gameState, isAiSolving, aiMoveQueue, probe>>

\* useFrame of CubeMesh: the animation of the roll in flight reaches its end
\* and calls onRollComplete.
RollComplete ==
  /\ isRolling
  /\ rollDirection # "null"
  /\ completeRoll
  /\ UNCHANGED <<aiMoveQueue, probe>>

\* ------------------------------------------------------------------------
\* Map load and restart
\* ------------------------------------------------------------------------

\* History only: the requests still in flight when a new game replaces the
\* old one were made in the previous game.
PreviousGame(requests) ==
  [i \in DOMAIN requests |-> [requests[i] EXCEPT !.game = "previous"]]

\* reader.onload of handleLoadMap for a file holding the array `grid`.
handleLoadMap(grid) ==
  /\ IF Len(grid) = GRID_SIZE
     THEN /\ gameState' = NewGame(grid)
          /\ isAiSolving' = FALSE
          /\ aiMoveQueue' = <<>>
          /\ inFlight' = PreviousGame(inFlight)
          /\ lastEvent' = "load"
     ELSE /\ UNCHANGED <<gameState, isAiSolving, aiMoveQueue, inFlight>>
          /\ lastEvent' = "loadRejected"
  /\ UNCHANGED <<isRolling, rollDirection, probe>>

restart(seed) ==
  /\ gameState' = NewGame(generateGrid(RandomSource(seed)))
  /\ isRolling' = FALSE
  /\ rollDirection' = "null"
  /\ isAiSolving' = FALSE
  /\ aiMoveQueue' = <<>>
  /\ lastEvent' = "restart"
  /\ inFlight' = <<>>
  /\ UNCHANGED probe

\* ------------------------------------------------------------------------
\* Autoplay
\* ------------------------------------------------------------------------

toggleAi ==
  /\ gameState.status = "playing" => gameState.moves < MaxManualMoves
  /\ IF gameState.status = "playing"
     THEN /\ aiMoveQueue' = <<>>
          /\ isAiSolving' = ~isAiSolving
          /\ lastEvent' = "toggleAi"
     ELSE /\ UNCHANGED <<aiMoveQueue, isAiSolving>>
          /\ lastEvent' = "toggleIgnored"
  /\ UNCHANGED <<gameState, isRolling, rollDirection, inFlight, probe>>

\* aiSearchExpand trying the four directions in the opposite order.
RECURSIVE aiSearchExpandReversed(_, _, _, _)
aiSearchExpandReversed(current, i, queue, visited) ==
  IF i > Len(DirOrder) THEN [queue |-> queue, visited |-> visited]
  ELSE LET dir == DirOrder[Len(DirOrder) + 1 - i]
           np == MovePos(current.x, current.y, dir)
       IN IF OutOfBounds(np[1], np[2])
          THEN aiSearchExpandReversed(current, i + 1, queue, visited)
          ELSE LET nextFaces == rotateOrientation(current.faces, dir)
                   key == <<np[1], np[2], getOrientationKey(nextFaces)>>
               IN IF key \notin visited
                  THEN aiSearchExpandReversed(current, i + 1,
                         Append(queue, [x |-> np[1], y |-> np[2], faces |-> nextFaces,
                                        path |-> Append(current.path, dir)]),
                         visited \cup {key})
                  ELSE aiSearchExpandReversed(current, i + 1, queue, visited)

\* The for loop over the four directions in the search of runAiStep.
RECURSIVE aiSearchExpand(_, _, _, _)
aiSearchExpand(current, i, queue, visited) ==
  IF i > Len(DirOrder) THEN [queue |-> queue, visited |-> visited]
  ELSE LET dir == DirOrder[i]
           np == MovePos(current.x, current.y, dir)
       IN IF OutOfBounds(np[1], np[2])
          THEN aiSearchExpand(current, i + 1, queue, visited)
          ELSE LET nextFaces == rotateOrientation(current.faces, dir)
                   key == <<np[1], np[2], getOrientationKey(nextFaces)>>
               IN IF key \notin visited
                  THEN aiSearchExpand(current, i + 1,
                         Append(queue, [x |-> np[1], y |-> np[2], faces |-> nextFaces,
                                        path |-> Append(current.path, dir)]),
                         visited \cup {key})
                  ELSE aiSearchExpand(current, i + 1, queue, visited)

\* aiSearchStep with the cutoff at 5 moves instead of 15.
aiSearchStepShortCutoff(grid, s) ==
  IF s.queue = <<>> THEN [s EXCEPT !.done = TRUE, !.result = NoPath]
  ELSE LET current == Head(s.queue)
           tileAt == Cell(grid, current.x, current.y)
       IN IF tileAt # "BLACK" /\ tileAt # "GRAY" /\ current.faces.bottom = tileAt
          THEN [s EXCEPT !.done = TRUE, !.result = SomePath(current.path)]
          ELSE IF Len(current.path) > 5 THEN [s EXCEPT !.queue = Tail(s.queue)]
          ELSE LET e == aiSearchExpand(current, 1, Tail(s.queue), s.visited)
               IN [s EXCEPT !.queue = e.queue, !.visited = e.visited]

\* One iteration of the while loop in runAiStep over the live grid.
aiSearchStep(grid, s) ==
  IF s.queue = <<>> THEN [s EXCEPT !.done = TRUE, !.result = NoPath]
  ELSE LET current == Head(s.queue)
           tileAt == Cell(grid, current.x, current.y)
       IN IF tileAt # "BLACK" /\ tileAt # "GRAY" /\ current.faces.bottom = tileAt
          THEN [s EXCEPT !.done = TRUE, !.result = SomePath(current.path)]
          ELSE IF Len(current.path) > 15 THEN [s EXCEPT !.queue = Tail(s.queue)]
          ELSE LET e == aiSearchExpand(current, 1, Tail(s.queue), s.visited)
               IN [s EXCEPT !.queue = e.queue, !.visited = e.visited]

RECURSIVE aiSearchRun(_, _, _)
aiSearchRun(grid, s, n) ==
  IF s.done \/ n <= 0 THEN s
  ELSE IF n = 1 THEN aiSearchStep(grid, s)
  ELSE aiSearchRun(grid, aiSearchRun(grid, s, n \div 2), n - (n \div 2))

\* bestPath of runAiStep for the game state gs.
aiSearch(gs) ==
  LET startX == gs.cubePosition[1]
      startY == gs.cubePosition[2]
      startFaces == gs.cubeFaces
  IN aiSearchRun(gs.grid,
       [queue |-> <<[x |-> startX, y |-> startY, faces |-> startFaces, path |-> <<>>]>>,
        visited |-> {<<startX, startY, getOrientationKey(startFaces)>>},
        done |-> FALSE, result |-> NoPath],
       SearchFuel).result

\* The autoplay timer fires (it is set only while isAiSolving).
runAiStep ==
  /\ isAiSolving
  /\ IF gameState.status # "playing" \/ isRolling
     THEN UNCHANGED <<isRolling, rollDirection, isAiSolving, aiMoveQueue, lastEvent, inFlight>>
     ELSE IF Len(aiMoveQueue) > 0
     THEN /\ aiMoveQueue' = Tail(aiMoveQueue)
          /\ handleRoll(aiMoveQueue[1])
          /\ inFlight' = Requested(aiMoveQueue[1], "autoplay")
          /\ lastEvent' = "aiFeed"
          /\ UNCHANGED isAiSolving
     ELSE \E bestPath \in {aiSearch(gameState)} :
             /\ IF bestPath.found
                THEN aiMoveQueue' = bestPath.path /\ lastEvent' = "aiPlan" /\ UNCHANGED isAiSolving
                ELSE isAiSolving' = FALSE /\ lastEvent' = "aiStop" /\ UNCHANGED aiMoveQueue
             /\ UNCHANGED <<isRolling, rollDirection, inFlight>>
  /\ UNCHANGED <<gameState, probe>>

Next ==
  \/ \E dir \in Direction : PointerDown(dir)
  \/ \E dir \in Direction : handleKeyDown(dir)
  \/ RollComplete
  \/ \E grid \in MapFiles : handleLoadMap(grid)
  \/ \E seed \in Seeds : restart(seed)
  \/ toggleAi
  \/ runAiStep

Spec == Init /\ [][Next]_vars

\* ------------------------------------------------------------------------
\* The rotation function on its own: an orientation is drawn and rolled up
\* to MaxRotations times in any directions.
\* ------------------------------------------------------------------------

MaxRotations == 4

\* The orientations tried: every assignment of the six palette colors to the
\* six faces without repetition, and every assignment of two colors.
DistinctFaces(o) == Cardinality({o[f] : f \in FaceNames}) = Cardinality(FaceNames)

RotationInputs ==
  {o \in [FaceNames -> {ALL_COLORS[k] : k \in 1..Len(ALL_COLORS)}] : DistinctFaces(o)}
    \cup [FaceNames -> {"WHITE", "PINK"}]

AppAtRest ==
  /\ gameState = NewGame(SavedMap)
  /\ isRolling = FALSE
  /\ rollDirection = "null"
  /\ isAiSolving = FALSE
  /\ aiMoveQueue = <<>>
  /\ lastEvent = "init"
  /\ inFlight = <<>>

InitRotate ==
  /\ AppAtRest
  /\ \E o \in RotationInputs : probe = [kind |-> "rotate", start |-> o, current |-> o, applied |-> <<>>]

Rotate(dir) ==
  /\ probe.kind = "rotate"
  /\ Len(probe.applied) < MaxRotations
  /\ probe' = [probe EXCEPT !.current = rotateOrientation(@, dir), !.applied = Append(@, dir)]
  /\ UNCHANGED appVars

NextRotate == \E dir \in Direction : Rotate(dir)

SpecRotate == InitRotate /\ [][NextRotate]_vars

\* ------------------------------------------------------------------------
\* The solver on its own: a grid, a position and an orientation are drawn,
\* both searches run on them, and a search over the full orientation
\* measures the distance to the nearest goal.
\* ------------------------------------------------------------------------

\* The orientations the default one reaches by rolls.
RECURSIVE RollClosure(_)
RollClosure(S) ==
  LET T == S \cup {rotateOrientation(o, d) : o \in S, d \in Direction}
  IN IF T = S THEN S ELSE RollClosure(T)

ReachableOrientations == RollClosure({INITIAL_CUBE_FACES})

\* A late-game live grid: the first seed's board with all but the top row
\* and the right column matched.
LateGrid ==
  [r \in 1..GRID_SIZE |->
    [c \in 1..GRID_SIZE |->
      IF SavedMap[r][c] = "GRAY" THEN "GRAY"
      ELSE IF r = GRID_SIZE \/ c = GRID_SIZE THEN SavedMap[r][c]
      ELSE "BLACK"]]

\* The last move of a game: only the corner cell (0, 0) is left to match.
CornerGrid ==
  [r \in 1..GRID_SIZE |->
    [c \in 1..GRID_SIZE |->
      IF SavedMap[r][c] = "GRAY" THEN "GRAY"
      ELSE IF r = 1 /\ c = 1 THEN SavedMap[r][c]
      ELSE "BLACK"]]

\* The live grid of a finished game: every cell but the start cell matched.
ClearedGrid ==
  [r \in 1..GRID_SIZE |->
    [c \in 1..GRID_SIZE |-> IF SavedMap[r][c] = "GRAY" THEN "GRAY" ELSE "BLACK"]]

SolverGrids == {SavedMap, LateGrid, CornerGrid, ClearedGrid}

\* Goal test of the exhaustive search on a full state <<x, y, faces>>.
IsGoal(g, n) ==
  LET tile == Cell(g, n[1], n[2])
  IN tile \in ColorType /\ tile # "BLACK" /\ tile # "GRAY" /\ tile = n[3].bottom

\* The full state a roll in direction d leads to from n.
RollStep(n, d) ==
  LET np == MovePos(n[1], n[2], d)
  IN <<np[1], np[2], rotateOrientation(n[3], d)>>

\* The in-bounds roll successors of a set of full states.
RollSuccessors(S) ==
  {m \in {RollStep(n, d) : n \in S, d \in Direction} : ~OutOfBounds(m[1], m[2])}

\* The least number of in-bounds rolls from the states of `frontier` (all k
\* rolls from the start) to a goal, or -1 when no roll sequence reaches one.
RECURSIVE DistanceFrom(_, _, _, _)
DistanceFrom(g, seen, frontier, k) ==
  IF \E n \in frontier : IsGoal(g, n) THEN k
  ELSE LET next == RollSuccessors(frontier) \ seen
       IN IF next = {} THEN -1 ELSE DistanceFrom(g, seen \cup next, next, k + 1)

ShortestDistance(g, x, y, faces) == DistanceFrom(g, {<<x, y, faces>>}, {<<x, y, faces>>}, 0)

InitSolve ==
  /\ AppAtRest
  /\ \E g \in SolverGrids, x \in 0..(GRID_SIZE - 1), y \in 0..(GRID_SIZE - 1),
        o \in ReachableOrientations :
       probe = [kind |-> "solve", phase |-> "input", grid |-> g, x |-> x, y |-> y, faces |-> o,
                simPath |-> NoPath, aiPath |-> NoPath, shortest |-> -1]

\* Both searches and the exhaustive one are run on the drawn input.
Solve ==
  /\ probe.kind = "solve"
  /\ probe.phase = "input"
  /\ probe' = [probe EXCEPT
       !.phase = "solved",
       !.simPath = findPath(probe.grid, probe.x, probe.y, probe.faces),
       !.aiPath = aiSearch([NewGame(probe.grid) EXCEPT
                     !.cubePosition = <<probe.x, probe.y>>, !.cubeFaces = probe.faces]),
       !.shortest = ShortestDistance(probe.grid, probe.x, probe.y, probe.faces)]
  /\ UNCHANGED appVars

NextSolve == Solve

SpecSolve == InitSolve /\ [][NextSolve]_vars

\* ------------------------------------------------------------------------
\* The board generator on its own: an outcome of the shuffle's random draws
\* is chosen and generateGrid is run on it.
\* ------------------------------------------------------------------------

\* The outcomes considered are NumShuffles * NumShuffles sequences of draws,
\* and the two extreme ones.
NumShuffles == 10

\* A sequence of draws: the draw at step i is a number in 0..i.
ShuffleDraws(a, b) ==
  [i \in 1..(Len(ColorPool) - 1) |-> (a * (i * i + 5 * i + 11) + b * (i + 3)) % (i + 1)]

\* Every draw is i (no element moves) or every draw is 0.
DrawsLast == [i \in 1..(Len(ColorPool) - 1) |-> i]

DrawsFirst == [i \in 1..(Len(ColorPool) - 1) |-> 0]

ShuffleOutcomes ==
  {ShuffleDraws(a, b) : a \in 0..(NumShuffles - 1), b \in 0..(NumShuffles - 1)}
    \cup {DrawsLast, DrawsFirst} \cup {RandomSource(seed) : seed \in Seeds}

InitGenerate ==
  /\ AppAtRest
  /\ \E rnd \in ShuffleOutcomes :
       probe = [kind |-> "generate", phase |-> "input", rnd |-> rnd, grid |-> <<>>]

Generate ==
  /\ probe.kind = "generate"
  /\ probe.phase = "input"
  /\ probe' = [probe EXCEPT !.phase = "generated", !.grid = generateGrid(probe.rnd)]
  /\ UNCHANGED appVars

NextGenerate == Generate

SpecGenerate == InitGenerate /\ [][NextGenerate]_vars

\* ------------------------------------------------------------------------
\* The reference simulation on its own: a grid is drawn and the loop of
\* simulateAiStats is run on it one iteration at a time.
\* ------------------------------------------------------------------------

\* The number of generated boards simulated.
NumSimBoards == 5

SimGrids ==
  {generateGrid(RandomSource(seed)) : seed \in 1..NumSimBoards}
    \cup {g \in MapFiles : Len(g) = GRID_SIZE} \cup {LateGrid, CornerGrid}

InitSimulate ==
  /\ AppAtRest
  /\ \E g \in SimGrids : probe = [kind |-> "simulate", s |-> simulateStart(g)]

SimulateIteration ==
  /\ probe.kind = "simulate"
  /\ ~probe.s.done
  /\ probe' = [probe EXCEPT !.s = simulateIteration(@)]
  /\ UNCHANGED appVars

NextSimulate == SimulateIteration

SpecSimulate == InitSimulate /\ [][NextSimulate]_vars

\* ------------------------------------------------------------------------
\* The game left to autoplay: keys are pressed only before autoplay is
\* switched on, and from then on only the autoplay timer and the end of
\* the roll animation act (no buttons, no load, no restart, no second
\* toggle).
\* ------------------------------------------------------------------------

NextAutoplay ==
  \/ ~isAiSolving /\ \E dir \in Direction : handleKeyDown(dir)
  \/ ~isAiSolving /\ toggleAi
  \/ RollComplete
  \/ runAiStep

SpecAutoplay == Init /\ [][NextAutoplay]_vars

\* The game played by autoplay alone: autoplay is switched on in the initial
\* state and then only the autoplay timer and the end of the roll animation
\* act.
NextPureAutoplay ==
  \/ lastEvent = "init" /\ toggleAi
  \/ RollComplete
  \/ runAiStep

SpecPureAutoplay == Init /\ [][NextPureAutoplay]_vars

\* ------------------------------------------------------------------------
\* Properties
\* ------------------------------------------------------------------------

\* The game states after each commit of the directions of `path`, in turn,
\* from game state gs.
RECURSIVE StatesAlong(_, _)
StatesAlong(gs, path) ==
  IF path = <<>> THEN <<>>
  ELSE LET n == RollUpdate(gs, Head(path)) IN <<n>> \o StatesAlong(n, Tail(path))

MatchedCells(g) ==
  {c \in (0..(GRID_SIZE - 1)) \X (0..(GRID_SIZE - 1)) : Cell(g, c[1], c[2]) = "BLACK"}

\* C1: whenever the solver of runAiStep has just returned a path for the
\* current game state, committing its directions one after another never
\* loses, stays Playing and matches nothing before the last move, and the
\* last move turns the cell it lands on to BLACK.
C1_PathEndsInMatch ==
  lastEvent = "aiPlan" =>
    LET st == StatesAlong(gameState, aiMoveQueue)
        n == Len(st)
    IN /\ n >= 1
       /\ \A k \in 1..n : st[k].status # "lost"
       /\ \A k \in 1..(n - 1) : st[k].status = "playing" /\ st[k].grid = gameState.grid
       /\ LET before == IF n = 1 THEN gameState ELSE st[n - 1]
              x == st[n].cubePosition[1]
              y == st[n].cubePosition[2]
          IN /\ Cell(st[n].grid, x, y) = "BLACK"
             /\ Cell(before.grid, x, y) # "BLACK"
             /\ st[n].matchedCount = gameState.matchedCount + 1

\* C2: the path either search returns is as long as the nearest goal is far:
\* its length is the least number of in-bounds rolls that end on an
\* unmatched, non-sentinel cell of the bottom face's color.
C2_PathIsShortest ==
  (probe.kind = "solve" /\ probe.phase = "solved") =>
    /\ probe.simPath.found => Len(probe.simPath.path) = probe.shortest
    /\ probe.aiPath.found => Len(probe.aiPath.path) = probe.shortest

C2_Witness ==
  /\ probe.kind = "solve" /\ probe.phase = "solved"
  /\ probe.aiPath.found /\ probe.simPath.found
  /\ Len(probe.aiPath.path) >= 8
  /\ probe.grid = CornerGrid

\* C3: a commit whose candidate position is off the grid sets status to
\* lost and leaves every other field of the game state as it was.
C3_RollOffGridOnlySetsLost ==
  [][(/\ lastEvent' = "commit"
      /\ LET np == MovePos(gameState.cubePosition[1], gameState.cubePosition[2], rollDirection)
         IN OutOfBounds(np[1], np[2]))
     => /\ gameState'.status = "lost"
        /\ gameState'.cubePosition = gameState.cubePosition
        /\ gameState'.cubeFaces = gameState.cubeFaces
        /\ gameState'.grid = gameState.grid
        /\ gameState'.initialGrid = gameState.initialGrid
        /\ gameState'.moves = gameState.moves
        /\ gameState'.matchedCount = gameState.matchedCount]_vars

\* The cube stood at (0, 2) and the roll in flight was committed off the grid.
C3_Witness ==
  /\ gameState.status = "lost"
  /\ gameState.cubePosition = <<0, 2>>
  /\ gameState.moves = 2
  /\ lastEvent = "commit"

\* C4: in a state whose status is lost or won every roll request is
\* refused and no roll is committed: the counters, the position and the
\* orientation keep their values and no roll is put in flight.
C4_TerminalRejectsRolls ==
  [][(/\ gameState.status \in {"lost", "won"}
      /\ lastEvent' \in {"rollIgnored", "rollAccepted", "aiFeed", "commit", "commitIgnored"})
     => /\ lastEvent' \in {"rollIgnored", "commitIgnored"}
        /\ gameState'.matchedCount = gameState.matchedCount
        /\ gameState'.moves = gameState.moves
        /\ gameState'.cubePosition = gameState.cubePosition
        /\ gameState'.cubeFaces = gameState.cubeFaces
        /\ gameState'.status = gameState.status
        /\ ~isRolling' /\ rollDirection' = "null"]_vars

\* A roll was requested after the game was won, and refused.
C4_Witness ==
  /\ gameState.status = "won"
  /\ lastEvent = "rollIgnored"

\* C5: the counter is 25 exactly in the won states: no playing state has
\* matchedCount = 25 and no won state has another count.
C5_WonExactlyAt25 ==
  /\ ~(gameState.matchedCount = GRID_SIZE * GRID_SIZE /\ gameState.status = "playing")
  /\ gameState.status = "won" => gameState.matchedCount = GRID_SIZE * GRID_SIZE

C5_Witness ==
  /\ gameState.status = "won"
  /\ lastEvent = "commit"

\* C6: status is won exactly when every cell of the live grid but the start
\* cell is BLACK, and matchedCount is 1 plus the number of BLACK cells.
C6_WonIffAllMatched ==
  /\ gameState.status = "won" <=>
       \A c \in (0..(GRID_SIZE - 1)) \X (0..(GRID_SIZE - 1)) :
          c # START_POS => Cell(gameState.grid, c[1], c[2]) = "BLACK"
  /\ gameState.matchedCount = 1 + Cardinality(MatchedCells(gameState.grid))

\* C7 as stated: the commit of a roll to the right from (2, 2) in the default
\* orientation lands on (3, 2) with the default's left face down.
C7_RightRollBottomIsOldLeft ==
  [][(/\ lastEvent' = "commit"
      /\ rollDirection = "right"
      /\ gameState.cubePosition = <<2, 2>>
      /\ gameState.cubeFaces = INITIAL_CUBE_FACES)
     => /\ gameState'.cubePosition = <<3, 2>>
        /\ gameState'.cubeFaces.bottom = INITIAL_CUBE_FACES.left]_vars

\* C7 amended: the commit of a roll to the right from (2, 2) in the default
\* orientation lands on (3, 2) with the default's right face down.
C7_RightRollBottomIsOldRight ==
  [][(/\ lastEvent' = "commit"
      /\ rollDirection = "right"
      /\ gameState.cubePosition = <<2, 2>>
      /\ gameState.cubeFaces = INITIAL_CUBE_FACES)
     => /\ gameState'.cubePosition = <<3, 2>>
        /\ gameState'.cubeFaces.bottom = INITIAL_CUBE_FACES.right]_vars

\* The first move of a game was a roll to the right.
C7_Witness ==
  /\ lastEvent = "commit"
  /\ gameState.moves = 1
  /\ gameState.cubePosition = <<3, 2>>
  /\ gameState.cubeFaces.top = INITIAL_CUBE_FACES.left

\* C8: four rolls in one direction restore every orientation, and one, two
\* or three rolls in one direction change an orientation of six distinct
\* colors.
C8_FourRollsRestore ==
  probe.kind = "rotate" =>
    \A d \in Direction :
      /\ probe.applied = <<d, d, d, d>> => probe.current = probe.start
      /\ (DistinctFaces(probe.start) /\ probe.applied \in {<<d>>, <<d, d>>, <<d, d, d>>})
           => probe.current # probe.start

C8_Witness ==
  /\ probe.kind = "rotate"
  /\ probe.applied = <<"left", "left", "left", "left">>
  /\ DistinctFaces(probe.start)

\* C9: a roll up then down, down then up, left then right, or right then
\* left restores every orientation.
C9_OppositeRollsCancel ==
  (probe.kind = "rotate" /\
     probe.applied \in {<<"up", "down">>, <<"down", "up">>, <<"left", "right">>, <<"right", "left">>})
    => probe.current = probe.start

C9_Witness ==
  /\ probe.kind = "rotate"
  /\ probe.applied = <<"up", "down">>
  /\ DistinctFaces(probe.start)

\* C10: the cube's six faces always hold the six colors of the default
\* assignment, each on exactly one face.
C10_FacesArePermutation ==
  /\ DOMAIN gameState.cubeFaces = FaceNames
  /\ {gameState.cubeFaces[f] : f \in FaceNames} = {INITIAL_CUBE_FACES[f] : f \in FaceNames}
  /\ \A c \in {INITIAL_CUBE_FACES[f] : f \in FaceNames} :
        Cardinality({f \in FaceNames : gameState.cubeFaces[f] = c}) = 1

\* The cube was rolled away from the default orientation.
C10_Witness ==
  /\ gameState.moves >= 3
  /\ gameState.cubeFaces # INITIAL_CUBE_FACES
  /\ lastEvent = "commit"

\* The candidate position of the roll in flight.
Candidate == MovePos(gameState.cubePosition[1], gameState.cubePosition[2], rollDirection)

\* The coordinates of the grid.
Coords == 0..(GRID_SIZE - 1)

Palette == {ALL_COLORS[k] : k \in 1..Len(ALL_COLORS)}

\* C11: a commit leaves initialGrid alone; it turns the cell the cube lands
\* on to BLACK exactly when that cell is neither GRAY nor BLACK and has the
\* color of the cube's new bottom face, the cell then held a palette color,
\* and no other cell of the live grid changes.
C11_RollChangesOnlyLandingCell ==
  [][lastEvent' = "commit" =>
      LET x == Candidate[1]
          y == Candidate[2]
          tile == Cell(gameState.grid, x, y)
          hit == /\ x \in Coords /\ y \in Coords
                 /\ tile # "GRAY" /\ tile # "BLACK"
                 /\ tile = gameState'.cubeFaces.bottom
      IN /\ gameState'.initialGrid = gameState.initialGrid
         /\ hit => /\ tile \in Palette
                   /\ gameState'.grid = [gameState.grid EXCEPT ![y + 1][x + 1] = "BLACK"]
         /\ ~hit => gameState'.grid = gameState.grid]_vars

\* A roll has just matched a cell of the generated board.
C11_Witness ==
  /\ lastEvent = "commit"
  /\ gameState.matchedCount = 2
  /\ gameState.grid # gameState.initialGrid
  /\ Cell(gameState.grid, gameState.cubePosition[1], gameState.cubePosition[2]) = "BLACK"
  /\ Cell(gameState.initialGrid, gameState.cubePosition[1], gameState.cubePosition[2])
       = gameState.cubeFaces.bottom

\* C12: a game creation sets moves to 0 and matchedCount to 1; any other
\* event changes moves only by +1, on a commit whose candidate position is
\* on the grid, and matchedCount only by +1, on a commit that turns a cell
\* of the live grid to BLACK.
C12_CountersStepByOne ==
  /\ [](lastEvent \in {"init", "load", "restart"} =>
          gameState.moves = 0 /\ gameState.matchedCount = 1)
  /\ [][lastEvent' \notin {"load", "restart"} =>
         LET landed == /\ lastEvent' = "commit"
                       /\ Candidate[1] \in Coords /\ Candidate[2] \in Coords
             matched == landed /\ gameState'.grid # gameState.grid
         IN /\ gameState'.moves = gameState.moves + (IF landed THEN 1 ELSE 0)
            /\ gameState'.matchedCount = gameState.matchedCount + (IF matched THEN 1 ELSE 0)]_vars

\* A roll that matched nothing followed one that matched a cell.
C12_Witness ==
  /\ lastEvent = "commit"
  /\ gameState.status = "playing"
  /\ gameState.moves = 3
  /\ gameState.matchedCount = 2

\* C13: the cube is always on the grid, and status becomes lost only in a
\* commit whose candidate position is off the grid.
C13_LostOnlyOffGrid ==
  /\ [](gameState.cubePosition[1] \in Coords /\ gameState.cubePosition[2] \in Coords)
  /\ [][(gameState'.status = "lost" /\ gameState.status # "lost") =>
         /\ lastEvent' = "commit"
         /\ (Candidate[1] \notin Coords \/ Candidate[2] \notin Coords)]_vars

\* The cube stood on the top edge and was rolled up.
C13_Witness ==
  /\ gameState.status = "lost"
  /\ gameState.cubePosition = <<2, GRID_SIZE - 1>>
  /\ lastEvent = "commit"

\* Five rows of five cells.
WellShaped(g) == Len(g) = GRID_SIZE /\ \A r \in 1..Len(g) : Len(g[r]) = GRID_SIZE

\* C14: a map load either installs a grid of five rows of five cells or
\* leaves the game state as it was.
C14_LoadRejectsWrongShape ==
  [][lastEvent' \in {"load", "loadRejected"} =>
       (gameState' = gameState \/ WellShaped(gameState'.grid))]_vars

\* The efficiency percent of a move count as the claim gives it.
EfficiencyPercent(moveCount) == IF moveCount > 0 THEN (25 * 100) \div moveCount ELSE 0

\* C15: the efficiency shown for the player and the efficiency stored for
\* the reference simulation are floor(25 / moveCount * 100), and 0 when the
\* move count is 0.
C15_EfficiencyZeroAtZeroMoves ==
  /\ userEfficiency = EfficiencyPercent(gameState.moves)
  /\ gameState.status = "won" =>
       gameState.aiComparisonScore = EfficiencyPercent(gameState.aiComparisonMoves)

\* The number of cells of grid g that hold color c.
CountColor(g, c) ==
  Cardinality({p \in (1..Len(g)) \X (1..GRID_SIZE) : p[2] <= Len(g[p[1]]) /\ g[p[1]][p[2]] = c})

\* C16: the generated grid has five rows of five cells, GRAY on the start
\* cell and a palette color on every other cell, and holds every palette
\* color four times.
C16_GeneratedGridIsBalanced ==
  (probe.kind = "generate" /\ probe.phase = "generated") =>
    /\ WellShaped(probe.grid)
    /\ \A x \in Coords, y \in Coords :
         IF <<x, y>> = START_POS
         THEN Cell(probe.grid, x, y) = "GRAY"
         ELSE Cell(probe.grid, x, y) \in Palette
    /\ \A c \in Palette : CountColor(probe.grid, c) = 4

\* A board was generated whose first row the shuffle has mixed.
C16_Witness ==
  /\ probe.kind = "generate" /\ probe.phase = "generated"
  /\ Cardinality({probe.grid[1][c] : c \in 1..GRID_SIZE}) >= 4
  /\ probe.rnd \notin {DrawsLast, DrawsFirst}

\* The cells of grid g, as <<x, y>>.
CellsOf(g) == {c \in Coords \X (0..(Len(g) - 1)) : c[1] + 1 <= Len(g[c[2] + 1])}

\* The cells of g that are neither BLACK nor GRAY.
PlayableCells(g) == {c \in CellsOf(g) : Cell(g, c[1], c[2]) \notin {"BLACK", "GRAY"}}

\* C17: every call of findPath the simulation makes ends; an iteration of
\* the simulation's loop that gets a path turns exactly one cell of the
\* private grid, neither BLACK nor GRAY before, to BLACK; an iteration
\* that gets no path ends the loop and nothing else does; and findPath is
\* never called more than (playable cells of the grid + 1) times, so the
\* loop has ended by then.
C17_SimulationTerminates ==
  /\ [][probe.kind = "simulate" =>
         LET before == probe.s.gridCopy
             after == probe'.s.gridCopy
             turned == {c \in CellsOf(before) : Cell(after, c[1], c[2]) # Cell(before, c[1], c[2])}
             search == findPathSearch(before, probe.s.currentPos[1], probe.s.currentPos[2],
                                      probe.s.currentFaces)
         IN /\ search.done
            /\ probe'.s.calls = probe.s.calls + 1
            /\ CellsOf(after) = CellsOf(before)
            /\ probe'.s.done = ~search.result.found
            /\ IF probe'.s.done
               THEN turned = {}
               ELSE /\ Cardinality(turned) = 1
                    /\ \A c \in turned : /\ c \in PlayableCells(before)
                                         /\ Cell(after, c[1], c[2]) = "BLACK"]_vars
  /\ [](probe.kind = "simulate" =>
          /\ probe.s.calls <= Cardinality(PlayableCells(probe.s.initialGrid)) + 1
          /\ probe.s.calls = Cardinality(PlayableCells(probe.s.initialGrid)) + 1 => probe.s.done)

\* The simulation of a generated board has ended after matching all of its
\* 24 playable cells.
C17_Witness ==
  /\ probe.kind = "simulate"
  /\ probe.s.done
  /\ probe.s.calls = GRID_SIZE * GRID_SIZE
  /\ PlayableCells(probe.s.gridCopy) = {}

\* C18: an autoplay step that runs the solver leaves the game state as it
\* was, and the commit that wins the game, which runs the simulation on
\* initialGrid, leaves initialGrid as it was and gives the live grid, the
\* position, the orientation and the counters the values of the roll alone.
C18_SolverLeavesStateAlone ==
  [][/\ lastEvent' \in {"aiPlan", "aiStop"} => gameState' = gameState
     /\ (lastEvent' = "commit" /\ gameState'.status = "won") =>
          LET moved == RollMoved(gameState, Candidate[1], Candidate[2],
                                 rotateOrientation(gameState.cubeFaces, rollDirection))
          IN /\ gameState'.initialGrid = gameState.initialGrid
             /\ gameState'.grid = moved.grid
             /\ gameState'.cubePosition = moved.cubePosition
             /\ gameState'.cubeFaces = moved.cubeFaces
             /\ gameState'.moves = moved.moves
             /\ gameState'.matchedCount = moved.matchedCount]_vars

\* The game was won and the simulation has run on its board.
C18_Witness ==
  /\ gameState.status = "won"
  /\ lastEvent = "commit"
  /\ gameState.aiComparisonMoves >= GRID_SIZE * GRID_SIZE - 1
  /\ PlayableCells(gameState.initialGrid) # {}

\* The game state a commit of direction dir leads to, but for the fields the
\* winning commit adds.
Committed(gs, dir) ==
  LET np == MovePos(gs.cubePosition[1], gs.cubePosition[2], dir)
  IN IF np[1] \in Coords /\ np[2] \in Coords
     THEN /\ gameState'.cubePosition = np
          /\ gameState'.cubeFaces = rotateOrientation(gs.cubeFaces, dir)
          /\ gameState'.moves = gs.moves + 1
     ELSE /\ gameState'.cubePosition = gs.cubePosition
          /\ gameState'.status = "lost"

\* C19: at most one accepted roll request is in flight, and it is the roll
\* isRolling and rollDirection show; a request made while a roll is in
\* flight or while status is not playing changes nothing; the cube is moved
\* or turned, a move counted or the game lost only by a commit; and a
\* commit is made with exactly one accepted request in flight, applies that
\* request's direction and leaves no roll in flight.
C19_OneRollInFlight ==
  /\ [](/\ Len(inFlight) <= 1
        /\ isRolling <=> Len(inFlight) = 1
        /\ rollDirection = (IF Len(inFlight) = 1 THEN inFlight[1].dir ELSE "null"))
  /\ [][/\ (lastEvent' \in {"rollAccepted", "rollIgnored", "aiFeed"}
             /\ (isRolling \/ gameState.status # "playing"))
          => /\ lastEvent' = "rollIgnored"
             /\ UNCHANGED <<gameState, isRolling, rollDirection, inFlight>>
        /\ lastEvent' \in {"rollAccepted", "aiFeed"}
          => /\ Len(inFlight') = 1 /\ isRolling'
             /\ UNCHANGED gameState
        /\ (lastEvent' \notin {"commit", "load", "restart"}) => UNCHANGED gameState
        /\ lastEvent' = "commit"
          => /\ Len(inFlight) = 1
             /\ Committed(gameState, inFlight[1].dir)
             /\ inFlight' = <<>>
             /\ ~isRolling' /\ rollDirection' = "null"]_vars

\* A roll request was made while a roll was in flight, and was ignored.
C19_Witness ==
  /\ lastEvent = "rollIgnored"
  /\ gameState.status = "playing"
  /\ gameState.moves = 1
  /\ isRolling
  /\ Len(inFlight) = 1

\* C20: the commit of a roll that autoplay fed from its queue never sets
\* status to lost.
C20_AutoplayNeverLoses ==
  [][(/\ lastEvent' = "commit"
      /\ Len(inFlight) >= 1
      /\ inFlight[Len(inFlight)].by = "autoplay")
     => gameState'.status # "lost"]_vars

\* C21: after a restart or an accepted map load the game is in its fresh
\* state, and the only step that changes a game afterwards is the commit of
\* a roll that was requested in that same game; a roll that was in flight
\* when the new game was made is never committed to it.
C21_NewGameWaitsForItsOwnRoll ==
  /\ [](lastEvent \in {"load", "restart"} => gameState = NewGame(gameState.initialGrid))
  /\ [][(gameState' # gameState /\ lastEvent' \notin {"load", "restart"})
        => /\ lastEvent' = "commit"
           /\ Len(inFlight) = 1
           /\ inFlight[1].game = "current"]_vars

\* C22: a path returned by either search has at most 16 moves, and a search
\* returns no path exactly when no roll sequence of at most 16 in-bounds
\* moves leads from the start state to a goal state (a cell that is neither
\* BLACK nor GRAY and whose color is the bottom face's).
C22_PathWithinSixteenMoves ==
  (probe.kind = "solve" /\ probe.phase = "solved")
    => \A p \in {probe.simPath, probe.aiPath} :
         /\ p.found => Len(p.path) <= 16
         /\ ~p.found <=> probe.shortest \notin 0..16

\* On the grid of a finished game no goal can be reached; both searches
\* end with no path.
C22_Witness ==
  /\ probe.kind = "solve" /\ probe.phase = "solved"
  /\ probe.grid = ClearedGrid
  /\ probe.shortest = -1
  /\ ~probe.simPath.found /\ ~probe.aiPath.found

\* C23: among the orientations that rolls produce from the default
\* orientation, the key (top, front) identifies the orientation: two of them
\* with the same key are equal on all six faces.  The orientation reached by
\* the rolls applied so far is one of them.
C23_KeyIdentifiesOrientation ==
  (probe.kind = "rotate" /\ probe.start = INITIAL_CUBE_FACES)
    => /\ probe.current \in ReachableOrientations
       /\ \A o1, o2 \in ReachableOrientations \cup {probe.current} :
            getOrientationKey(o1) = getOrientationKey(o2) => o1 = o2

\* Four rolls from the default orientation that bring the default top face
\* back on top with another front face.
C23_Witness ==
  /\ probe.kind = "rotate" /\ probe.start = INITIAL_CUBE_FACES
  /\ Len(probe.applied) = MaxRotations
  /\ probe.current.top = INITIAL_CUBE_FACES.top
  /\ probe.current.front # INITIAL_CUBE_FACES.front

\* The roll in flight was requested by the user toward a position off the
\* grid.
DoomedUserRoll ==
  /\ isRolling
  /\ Len(inFlight) = 1
  /\ inFlight[1].by = "user"
  /\ OutOfBounds(Candidate[1], Candidate[2])

\* What autoplay has left to do: the unmatched cells first, then, within the
\* way to the next match, a user's roll still to be committed, the path
\* still to be planned, and two steps (feed, commit) for each queued
\* direction.
AutoplayMeasure ==
  LET unmatched == GRID_SIZE * GRID_SIZE - gameState.matchedCount
      rank == IF isRolling /\ Len(inFlight) = 1 /\ inFlight[1].by = "user" THEN 35
              ELSE IF ~isRolling /\ aiMoveQueue = <<>> THEN 34
              ELSE 2 * Len(aiMoveQueue) + (IF isRolling THEN 1 ELSE 0)
  IN 36 * unmatched + rank

\* Every step taken while autoplay is on in a Playing state, except when
\* `excepted` holds before it.
AutoplayAdvances(excepted) ==
  (isAiSolving /\ gameState.status = "playing" /\ ~excepted)
    => /\ AutoplayMeasure' < AutoplayMeasure
       /\ lastEvent' = "aiPlan" => Len(aiMoveQueue') \in 1..16
       /\ lastEvent' # "aiStop"
       /\ gameState'.status # "lost"
       /\ isAiSolving' \/ gameState'.status = "won"

\* C24 as stated: once autoplay is on in a Playing state of a generated
\* board and nothing but the timer and the end of the animation acts, every
\* step brings the game closer to Won (the solver returns a path of 1 to 16
\* moves whenever a cell is left, the path ends in a match, no roll loses),
\* and autoplay goes off only at Won.
C24_AutoplayReachesWon ==
  /\ [](gameState.status = "won" => ~isAiSolving)
  /\ [][AutoplayAdvances(FALSE)]_vars

\* C24 amended: the same, for autoplay switched on while no roll that the
\* user requested toward a position off the grid is in flight.
C24_AutoplayReachesWonUnlessDoomed ==
  /\ [](gameState.status = "won" => ~isAiSolving)
  /\ [][AutoplayAdvances(DoomedUserRoll)]_vars

\* Autoplay, switched on after the user's own moves, has matched the last
\* cell and switched itself off.
C24_Witness ==
  /\ gameState.status = "won"
  /\ gameState.matchedCount = GRID_SIZE * GRID_SIZE
  /\ gameState.moves > MaxManualMoves
  /\ ~isAiSolving /\ aiMoveQueue = <<>> /\ ~isRolling
  /\ lastEvent = "commit"

\* The locals of simulateAiStats after k iterations of its loop (fewer when
\* the loop has ended before).
RECURSIVE simulateIterations(_, _)
simulateIterations(s, k) ==
  IF k = 0 \/ s.done THEN s ELSE simulateIterations(simulateIteration(s), k - 1)

\* C25: in the game played by autoplay alone, whenever the last direction of
\* a planned path has been committed, the simulation on the original grid
\* has, after as many paths, the same grid, position, orientation and move
\* total as the game; and when autoplay has stopped, the move total
\* simulateAiStats returns for the original grid is the game's move counter.
C25_SimulationAgreesWithAutoplay ==
  LET solved == gameState.matchedCount - 1
      sim == simulateIterations(simulateStart(gameState.initialGrid), solved)
  IN /\ (lastEvent = "commit" /\ aiMoveQueue = <<>>)
          => /\ sim.calls = solved /\ ~sim.done
             /\ sim.gridCopy = gameState.grid
             /\ sim.currentPos = gameState.cubePosition
             /\ sim.currentFaces = gameState.cubeFaces
             /\ sim.totalMoves = gameState.moves
     /\ (lastEvent \in {"commit", "aiStop"} /\ ~isAiSolving)
          => /\ simulateAiStats(gameState.initialGrid).moves = gameState.moves
             /\ gameState.status = "won" => gameState.aiComparisonMoves = gameState.moves

\* Autoplay alone has finished the game and the simulation's total, stored
\* at the win, is the game's move counter.
C25_Witness ==
  /\ lastEvent = "commit" /\ ~isAiSolving
  /\ gameState.status = "won"
  /\ gameState.moves > 0
  /\ gameState.aiComparisonMoves = gameState.moves

====
